---- MODULE Spec2Model ----
(***************************************************************************)
(* Model of out.py: a script that opens one FITS container, walks its      *)
(* HDUs in index order, exports every table HDU to CSV, renders every      *)
(* image HDU to PNG, prints a summary, and catches any Exception at the    *)
(* single try/except around the whole file.                                *)
(*                                                                         *)
(* Strings are modelled as sequences of one-character strings so that      *)
(* os.path.splitext / os.path.basename and the f-string file names are     *)
(* computed, not assumed.  The data of an HDU is modelled by its shape     *)
(* (a sequence of axis lengths); hasData = FALSE models hdu.data is None.  *)
(***************************************************************************)
EXTENDS Integers, Sequences, FiniteSets, TLC

\* ---------------------------------------------------------------- bounds
MaxHDU == 3
MaxNdim == 4
\* a second run is explored for containers of at most this many HDUs
MaxRerunHDU == 2

\* ------------------------------------------------------- string helpers
Digits == <<"0", "1", "2", "3", "4", "5", "6", "7", "8", "9">>

RECURSIVE Str(_)
\* str(n) for a non-negative int, as the f-string formats it
Str(n) == IF n < 10 THEN <<Digits[n + 1]>>
          ELSE Str(n \div 10) \o <<Digits[(n % 10) + 1]>>

\* p.rfind(c), 1-based; 0 when c does not occur (Python's -1)
rfind(p, c) ==
    LET hits == {k \in 1..Len(p) : p[k] = c}
    IN IF hits = {} THEN 0 ELSE CHOOSE k \in hits : \A m \in hits : m <= k

\* os.path.basename(p) on posix: everything after the last "/"
basename(p) == SubSeq(p, rfind(p, "/") + 1, Len(p))

\* os.path.splitext(p)[0] (genericpath._splitext): the last dot counts only
\* when it lies after the last "/" and some character between the "/" and
\* that dot is not a dot (leading dots of the file name are skipped)
splitext_root(p) ==
    LET sepIndex == rfind(p, "/")
        dotIndex == rfind(p, ".")
    IN IF dotIndex > sepIndex
          /\ \E k \in (sepIndex + 1)..(dotIndex - 1) : p[k] # "."
       THEN SubSeq(p, 1, dotIndex - 1)
       ELSE p

\* base_name of the table branch: os.path.splitext(fits_filename)[0]
CsvBase(path) == splitext_root(path)

\* base_name of the image branch:
\* os.path.splitext(os.path.basename(fits_filename))[0]
PngBase(path) == splitext_root(basename(path))

CsvNameNoOrdinal(path, n) ==
    CsvBase(path) \o <<"_", "t", "a", "b", "l", "e", ".", "c", "s", "v">>

\* csv_name = f"{base_name}_table_{table_count}.csv"
CsvName(path, n) ==
    CsvBase(path) \o <<"_", "t", "a", "b", "l", "e", "_">> \o Str(n)
                  \o <<".", "c", "s", "v">>

\* png_name = f"{base_name}_hdu{i}_image.png"
PngName(path, idx) ==
    PngBase(path) \o <<"_", "h", "d", "u">> \o Str(idx)
                  \o <<"_", "i", "m", "a", "g", "e", ".", "p", "n", "g">>

\* ------------------------------------------------------------- inputs
\* fits_filename samples: no directory, the configured shape of path
\* (directory whose name holds a dot), and a dotted directory with a file
\* that has no extension
Paths == { <<"o", ".", "f">>,
           <<"M", ".", "8", "/", "o", ".", "f">>,
           <<"H", ".", "d", "/", "o">> }

\* shapes of hdu.data: n axes of length 2, and the 4-D shape whose last
\* axis has length 3 (its first plane is an RGB picture that imshow accepts)
Shapes == { [k \in 1..n |-> 2] : n \in 1..MaxNdim }
          \cup { <<2, 2, 2, 3>> }

TableTypes == {"BinTableHDU", "TableHDU"}

\* a table HDU's data is a 1-D record array (one axis: the rows) or None
TableHDUs == { [type |-> t, hasData |-> TRUE, shape |-> <<2>>] : t \in TableTypes }
             \cup { [type |-> "BinTableHDU", hasData |-> FALSE, shape |-> <<>>] }

ImageHDUsOf(t) == { [type |-> t, hasData |-> TRUE, shape |-> s] : s \in Shapes }

\* the primary HDU holds an array or nothing (header only)
PrimaryHDUs == ImageHDUsOf("PrimaryHDU")
               \cup { [type |-> "PrimaryHDU", hasData |-> FALSE, shape |-> <<>>] }

\* an HDUList starts with the primary HDU, followed by extensions
Containers ==
    UNION { { <<p>> \o ext : p \in PrimaryHDUs,
                             ext \in [1..n -> ImageHDUsOf("ImageHDU") \cup TableHDUs] } :
            n \in 0..(MaxHDU - 1) }

\* -------------------------------------------------------------- state
VARIABLES fits_filename, hdul, fault, run, pc, isOpen, openCount, i,
          table_count, image_count, disk, written, outcome, imglog,
          summary, errors, tracebacks, exc, first, uncaught

vars == <<fits_filename, hdul, fault, run, pc, isOpen, openCount, i,
          table_count, image_count, disk, written, outcome, imglog,
          summary, errors, tracebacks, exc, first, uncaught>>

\* ------------------------------------------------------ classification
IsTableBinOnly(hdu) == hdu.type = "BinTableHDU"

\* isinstance(hdu, (fits.BinTableHDU, fits.TableHDU))
IsTable(hdu) == hdu.type \in TableTypes

IsImageShapeStrict(shape) == Len(shape) > 2

IsImageShapeLoose(shape) == Len(shape) >= 1

\* len(hdu.data.shape) >= 2
IsImageShape(shape) == Len(shape) >= 2

\* the if / continue / if / elif / else chain of the loop body
Dispatch(hdu) ==
    IF ~hdu.hasData THEN "nodata"
    ELSE IF IsTable(hdu) THEN "table"
    ELSE IF IsImageShape(hdu.shape) THEN "image"
    ELSE "unusual"

\* data2d = hdu.data; if len(data2d.shape) > 2: data2d = data2d[0]
\* (indexing with 0 removes the leading axis and nothing else)
Data2dShape(shape) == IF Len(shape) > 2 THEN Tail(shape) ELSE shape

\* the reduction notice is printed exactly when the slice is taken
ReductionNotice(shape) == Len(shape) > 2

\* ax.imshow accepts (M, N), (M, N, 1), (M, N, 3) and (M, N, 4); anything
\* else raises
ImshowOk(shape) ==
    \/ Len(shape) = 2
    \/ Len(shape) = 3 /\ shape[3] \in {1, 3, 4}

TableWriteNoOverwrite(d, name) ==
    IF name \in d THEN [ok |-> FALSE, disk |-> d]
    ELSE [ok |-> TRUE, disk |-> d \cup {name}]

\* t.write(csv_name, format="csv", overwrite=True): replaces an existing file
TableWrite(d, name) == [ok |-> TRUE, disk |-> d \cup {name}]

\* save_fig.savefig(png_name, ...): creates or replaces the file
Savefig(d, name) == d \cup {name}

ExitWithLeak(open) == open

\* __exit__ of "with fits.open(...) as hdul": the container is closed
ExitWith(open) == FALSE

\* ------------------------------------------------------------- faults
\* Where, for this file and this environment, control leaves the try block
\* (the same every time the script runs on the file):
\*   none       nowhere;
\*   open       fits.open raises, the container is never open;
\*   info       the container is open and the header prints of lines 40-42
\*              (hdul.info()) raise;
\*   pre  k     HDU k raises before any counter changes: reading hdu.data,
\*              the prints of lines 48-56, or the notice print of a skipped
\*              HDU (lines 51, 119);
\*   early k    image HDU k: the handler is left after line 74 and before
\*              anything of lines 80-84 took effect (for more than 2
\*              dimensions: the print of line 80 raises);
\*   slice k    image HDU k with more than 2 dimensions: the notice of
\*              line 80 is printed and the handler is left before line 84;
\*   mid  k     the handler of HDU k raises after its counter was
\*              incremented and before its file is written (for an image:
\*              lines 84-105, before plt.show());
\*   save k     image HDU k: plt.show() was entered and lines 106-114 raise
\*              before the PNG exists;
\*   post k     the handler of HDU k raises after its file was written
\*              (lines 70, 115-116);
\*   summary j  the with block is left after j of the three summary lines
\*              (lines 121-123) were printed; j = 3: after the last line,
\*              or by the __exit__ of the with statement.
\* The point is the environment's choice for one run of the script; a later
\* run may meet another one (Rerun).  What is raised there (an Exception or
\* a KeyboardInterrupt) and whether the except clause itself raises are
\* left open, see Propagate and HandleErrorFails.  A point that lies
\* behind an image HDU whose array imshow rejects is never reached and is
\* not listed.
Faults(c) ==
    LET rejected == {m \in 0..(Len(c) - 1) :
                       /\ Dispatch(c[m + 1]) = "image"
                       /\ ~ImshowOk(Data2dShape(c[m + 1].shape))}
        all == {m \in 0..(Len(c) - 1) : \A r \in rejected : m <= r}
        handled == {m \in all : Dispatch(c[m + 1]) \in {"table", "image"}}
        images == {m \in all : Dispatch(c[m + 1]) = "image"}
        sliced == {m \in images : Len(c[m + 1].shape) > 2}
    IN { [at |-> "none", idx |-> 0], [at |-> "open", idx |-> 0],
         [at |-> "info", idx |-> 0] }
       \cup { [at |-> "pre", idx |-> k] : k \in all }
       \cup { [at |-> "early", idx |-> k] : k \in images }
       \cup { [at |-> "slice", idx |-> k] : k \in sliced }
       \cup { [at |-> "mid", idx |-> k] : k \in handled }
       \cup { [at |-> "save", idx |-> k] : k \in images }
       \cup { [at |-> "post", idx |-> k] : k \in handled }
       \cup { [at |-> "summary", idx |-> j] : j \in IF rejected = {} THEN 0..3 ELSE {} }

FaultAt(kind) == fault.at = kind /\ fault.idx = i

Init ==
    /\ fits_filename \in Paths
    /\ hdul \in Containers
    /\ fault \in Faults(hdul)
    /\ run = 1
    /\ pc = "start"
    /\ isOpen = FALSE
    /\ openCount = 0
    /\ i = 0
    /\ table_count = 0
    /\ image_count = 0
    /\ disk = {}
    /\ written = <<>>
    /\ outcome = <<>>
    /\ imglog = <<>>
    /\ summary = <<>>
    /\ errors = 0
    /\ tracebacks = 0
    /\ exc = FALSE
    /\ first = [disk |-> {}, names |-> {}, all |-> FALSE]
    /\ uncaught = FALSE

Names(w) == { w[k].name : k \in 1..Len(w) }

\* ------------------------------------------------------------ actions
\* what is raised inside the try block either is an Exception, which the
\* except clause of line 125 takes, or is not (KeyboardInterrupt), and
\* then it ends the process
Propagate ==
    \/ pc' = "except" /\ exc' = TRUE /\ UNCHANGED uncaught
    \/ pc' = "done" /\ uncaught' = TRUE /\ UNCHANGED exc

\* leaving the with block by a raise closes the container first
Raise ==
    /\ isOpen' = ExitWith(isOpen)
    /\ Propagate

\* with fits.open(fits_filename) as hdul: ... hdul.info(); counters = 0
Open ==
    /\ pc = "start"
    /\ IF fault.at = "open"
       THEN /\ Propagate
            /\ UNCHANGED <<isOpen, openCount, table_count, image_count>>
       ELSE IF fault.at = "info"
       THEN /\ Propagate
            /\ isOpen' = ExitWith(TRUE)
            /\ openCount' = openCount + 1
            /\ UNCHANGED <<table_count, image_count>>
       ELSE /\ pc' = "loop"
            /\ isOpen' = TRUE
            /\ openCount' = openCount + 1
            /\ table_count' = 0
            /\ image_count' = 0
            /\ UNCHANGED <<exc, uncaught>>
    /\ UNCHANGED <<fits_filename, hdul, fault, run, i, disk, written, outcome,
                   imglog, summary, errors, tracebacks, first>>

\* HDU i raises before any branch has changed anything
ProcessFail ==
    /\ pc = "loop" /\ i < Len(hdul)
    /\ FaultAt("pre")
    /\ Raise
    /\ UNCHANGED <<fits_filename, hdul, fault, run, openCount, i, table_count,
                   image_count, disk, written, outcome, imglog, summary,
                   errors, tracebacks, first>>

\* hdu.data is None -> notice, continue; or the final else -> notice
ProcessSkip ==
    /\ pc = "loop" /\ i < Len(hdul)
    /\ ~FaultAt("pre")
    /\ Dispatch(hdul[i + 1]) \in {"nodata", "unusual"}
    /\ outcome' = Append(outcome, [hdu |-> i, branch |-> Dispatch(hdul[i + 1])])
    /\ i' = i + 1
    /\ UNCHANGED <<fits_filename, hdul, fault, run, pc, isOpen, openCount,
                   table_count, image_count, disk, written, imglog, summary,
                   errors, tracebacks, exc, first, uncaught>>

\* the table branch: count, print the table, write the CSV, report it
ProcessTable ==
    /\ pc = "loop" /\ i < Len(hdul)
    /\ ~FaultAt("pre")
    /\ Dispatch(hdul[i + 1]) = "table"
    /\ outcome' = Append(outcome, [hdu |-> i, branch |-> "table"])
    /\ table_count' = table_count + 1
    /\ LET csv_name == CsvName(fits_filename, table_count + 1)
           w == TableWrite(disk, csv_name)
       IN IF FaultAt("mid") \/ ~w.ok
          THEN /\ Raise
               /\ UNCHANGED <<i, disk, written>>
          ELSE /\ disk' = w.disk
               /\ written' = Append(written,
                                [name |-> csv_name, hdu |-> i, kind |-> "csv"])
               /\ IF FaultAt("post")
                  THEN Raise /\ UNCHANGED i
                  ELSE i' = i + 1 /\ UNCHANGED <<pc, exc, isOpen, uncaught>>
    /\ UNCHANGED <<fits_filename, hdul, fault, run, openCount, image_count,
                   imglog, summary, errors, tracebacks, first>>

\* the image branch up to plt.show() (lines 73-106): count, print the
\* notice and reduce to the first plane, normalise, draw the colormap
\* gallery, open the window.  imglog records what reaches simple_norm
\* (used = 0: the handler raised before line 84).
ProcessImage ==
    /\ pc = "loop" /\ i < Len(hdul)
    /\ ~FaultAt("pre")
    /\ Dispatch(hdul[i + 1]) = "image"
    /\ outcome' = Append(outcome, [hdu |-> i, branch |-> "image"])
    /\ image_count' = image_count + 1
    /\ LET shape == hdul[i + 1].shape
           data2d == Data2dShape(shape)
       IN IF FaultAt("early")
          THEN /\ imglog' = Append(imglog, [hdu |-> i, ndim |-> Len(shape),
                                            used |-> 0, notice |-> FALSE])
               /\ Raise
          ELSE IF FaultAt("slice")
          THEN /\ imglog' = Append(imglog, [hdu |-> i, ndim |-> Len(shape),
                                            used |-> 0,
                                            notice |-> ReductionNotice(shape)])
               /\ Raise
          ELSE /\ imglog' = Append(imglog, [hdu |-> i, ndim |-> Len(shape),
                                            used |-> Len(data2d),
                                            notice |-> ReductionNotice(shape)])
               /\ IF FaultAt("mid") \/ ~ImshowOk(data2d)
                  THEN Raise
                  ELSE pc' = "show" /\ UNCHANGED <<exc, isOpen, uncaught>>
    /\ UNCHANGED <<fits_filename, hdul, fault, run, openCount, i, table_count,
                   disk, written, summary, errors, tracebacks, first>>

\* from plt.show() to the end of the image branch (lines 106-116): the
\* window is closed, the viridis rendering is saved as PNG, the figure is
\* closed, the file is reported
SaveImage ==
    /\ pc = "show"
    /\ IF FaultAt("save")
       THEN /\ Raise
            /\ UNCHANGED <<i, disk, written>>
       ELSE /\ LET png_name == PngName(fits_filename, i)
               IN /\ disk' = Savefig(disk, png_name)
                  /\ written' = Append(written,
                                   [name |-> png_name, hdu |-> i, kind |-> "png"])
            /\ IF FaultAt("post")
               THEN Raise /\ UNCHANGED i
               ELSE /\ pc' = "loop"
                    /\ i' = i + 1
                    /\ UNCHANGED <<exc, isOpen, uncaught>>
    /\ UNCHANGED <<fits_filename, hdul, fault, run, openCount, table_count,
                   image_count, outcome, imglog, summary, errors, tracebacks,
                   first>>

\* the three summary prints of lines 121-123, in order
SummaryLines ==
    << [line |-> "header", n |-> 0],
       [line |-> "tables", n |-> table_count],
       [line |-> "images", n |-> image_count] >>

\* after the loop: print the summary, leave the with block; a raise leaves
\* the lines before it printed (all three when it comes after line 123 or
\* out of __exit__)
Summary ==
    /\ pc = "loop" /\ i = Len(hdul)
    /\ IF fault.at = "summary"
       THEN /\ summary' = summary \o SubSeq(SummaryLines, 1, fault.idx)
            /\ Raise
       ELSE /\ summary' = summary \o SummaryLines
            /\ isOpen' = ExitWith(isOpen)
            /\ pc' = "done"
            /\ UNCHANGED <<exc, uncaught>>
    /\ UNCHANGED <<fits_filename, hdul, fault, run, openCount, i, table_count,
                   image_count, disk, written, outcome, imglog, errors,
                   tracebacks, first>>

HandleErrorThenSummary ==
    /\ pc = "except"
    /\ errors' = errors + 1
    /\ tracebacks' = tracebacks + 1
    /\ summary' = summary \o SummaryLines
    /\ pc' = "done"
    /\ UNCHANGED <<fits_filename, hdul, fault, run, isOpen, openCount, i,
                   table_count, image_count, disk, written, outcome, imglog,
                   exc, first, uncaught>>

\* except Exception as e: print the message, print the traceback
HandleError ==
    /\ pc = "except"
    /\ errors' = errors + 1
    /\ tracebacks' = tracebacks + 1
    /\ pc' = "done"
    /\ UNCHANGED <<fits_filename, hdul, fault, run, isOpen, openCount, i,
                   table_count, image_count, disk, written, outcome, imglog,
                   summary, exc, first, uncaught>>

\* the except clause is left by an exception of its own: out of the print
\* of line 126 (nothing of the handler is printed), out of
\* traceback.print_exc() of line 128 after the message, or after the
\* traceback was written in full (an interrupt before the script ends);
\* the second exception is caught nowhere
HandleErrorFails ==
    /\ pc = "except"
    /\ \E printed \in {0, 1} : \E traced \in 0..printed :
          /\ errors' = errors + printed
          /\ tracebacks' = tracebacks + traced
    /\ uncaught' = TRUE
    /\ pc' = "done"
    /\ UNCHANGED <<fits_filename, hdul, fault, run, isOpen, openCount, i,
                   table_count, image_count, disk, written, outcome, imglog,
                   summary, exc, first>>

\* the script is started again on the same file, with the disk as the
\* previous run left it; everything else starts afresh, and the new run
\* meets whatever the environment does this time.  first keeps what the
\* previous run wrote and whether it went through every HDU.
Rerun ==
    /\ pc = "done" /\ run = 1
    /\ Len(hdul) <= MaxRerunHDU
    /\ run' = run + 1
    /\ fault' \in Faults(hdul)
    /\ first' = [disk |-> disk, names |-> Names(written),
                 all |-> (i = Len(hdul))]
    /\ pc' = "start"
    /\ isOpen' = FALSE
    /\ openCount' = 0
    /\ i' = 0
    /\ table_count' = 0
    /\ image_count' = 0
    /\ written' = <<>>
    /\ outcome' = <<>>
    /\ imglog' = <<>>
    /\ summary' = <<>>
    /\ errors' = 0
    /\ tracebacks' = 0
    /\ exc' = FALSE
    /\ uncaught' = FALSE
    /\ UNCHANGED <<fits_filename, hdul, disk>>

Next ==
    \/ Open
    \/ ProcessFail
    \/ ProcessSkip
    \/ ProcessTable
    \/ ProcessImage
    \/ SaveImage
    \/ Summary
    \/ HandleError
    \/ HandleErrorFails
    \/ Rerun

Spec == Init /\ [][Next]_vars

\* ------------------------------------------------------------- claims
Branches(o) == { o[k].branch : k \in 1..Len(o) }

CsvWritten == { written[k].name : k \in {m \in 1..Len(written) : written[m].kind = "csv"} }

PngWritten == { written[k].name : k \in {m \in 1..Len(written) : written[m].kind = "png"} }

TableExtsWithData ==
    { k \in 1..Len(hdul) : hdul[k].hasData /\ hdul[k].type \in {"BinTableHDU", "TableHDU"} }

ImageExts ==
    { k \in 1..Len(hdul) : /\ hdul[k].hasData
                           /\ hdul[k].type \notin {"BinTableHDU", "TableHDU"}
                           /\ Len(hdul[k].shape) >= 2 }

\* C1: every dispatched extension took exactly one of the four outcomes,
\* and which one is decided by: payload absent -> "nodata"; else table
\* extension -> "table"; else 2 or more dimensions -> "image"; else
\* "unusual".  Every extension the loop has passed has its outcome.
C1_DispatchTotalExclusive ==
    /\ Len(outcome) \in {i, i + 1}
    /\ \A k \in 1..Len(outcome) :
         LET h == hdul[k]
             b == outcome[k].branch
             tab == h.type \in {"BinTableHDU", "TableHDU"}
         IN /\ b \in {"nodata", "table", "image", "unusual"}
            /\ (b = "nodata") <=> ~h.hasData
            /\ (b = "table") <=> (h.hasData /\ tab)
            /\ (b = "image") <=> (h.hasData /\ ~tab /\ Len(h.shape) >= 2)
            /\ (b = "unusual") <=> (h.hasData /\ ~tab /\ Len(h.shape) < 2)

C1_Witness ==
    /\ pc = "done"
    /\ {"nodata", "table", "image"} \subseteq Branches(outcome)

\* C2: whenever the summary is printed, "Tables found" is the number of
\* table extensions with data and the number of CSV files written in this
\* run, and "Images visualized" is the number of non-table extensions with
\* 2 or more dimensions and the number of PNG files written; a container
\* without data gives 0 / 0 and no file.
C2_SummaryCounts ==
    \A k \in 1..Len(summary) :
        /\ summary[k].line = "tables" =>
              /\ summary[k].n = Cardinality(TableExtsWithData)
              /\ summary[k].n = Cardinality(CsvWritten)
        /\ summary[k].line = "images" =>
              /\ summary[k].n = Cardinality(ImageExts)
              /\ summary[k].n = Cardinality(PngWritten)
        /\ (CsvWritten \cup PngWritten) \subseteq disk
        /\ (\A m \in 1..Len(hdul) : ~hdul[m].hasData)
              => (written = <<>> /\ disk = first.disk /\ summary[k].n = 0)

C2_Witness ==
    /\ Len(summary) = 3
    /\ summary[2].n >= 1
    /\ summary[3].n >= 1

\* C3: processing an extension whose payload is absent, or that is not a
\* table and has fewer than 2 dimensions, changes neither counter and
\* writes no file.
C3_SkipFrame ==
    [][ ( /\ pc = "loop"
          /\ Len(outcome') = Len(outcome) + 1
          /\ LET h == hdul[i + 1]
             IN \/ ~h.hasData
                \/ h.type \notin {"BinTableHDU", "TableHDU"} /\ Len(h.shape) < 2 )
        => UNCHANGED <<table_count, image_count, disk, written>> ]_vars

C3_Witness ==
    /\ "unusual" \in Branches(outcome)
    /\ outcome[Len(outcome)].branch = "unusual"
    /\ Len(outcome) = i
    /\ table_count + image_count >= 1
    /\ disk # {}

\* the source file's base name: the file name without directory and extension
InputBase == splitext_root(basename(fits_filename))

\* C4: every CSV written is named <input-base>_table_<N>.csv, with
\* <input-base> the source file's base name (the prefix of the PNG names)
\* and N the 1-based ordinal of the table among the tables processed.
C4_CsvNamedFromBaseName ==
    \A k \in 1..Len(written) :
        written[k].kind = "csv" =>
            LET N == Cardinality({m \in 1..k : written[m].kind = "csv"})
            IN written[k].name =
                 InputBase \o <<"_", "t", "a", "b", "l", "e", "_">> \o Str(N)
                           \o <<".", "c", "s", "v">>

\* C5: two different extensions of one run never write the same file name.
C5_NoCollision ==
    \A a, b \in 1..Len(written) :
        written[a].hdu # written[b].hdu => written[a].name # written[b].name

C5_Witness ==
    /\ Len(written) = 3
    /\ Cardinality(CsvWritten) = 2
    /\ Cardinality(PngWritten) = 1

\* C6: a second run on the same input writes the same file names as the
\* first and leaves the same set of files on disk.
C6_RerunIdempotent ==
    (run = 2 /\ pc = "done") =>
        /\ Names(written) = first.names
        /\ disk = first.disk

\* C6 (amended): when both runs go through every extension, the second
\* run writes the same file names as the first, over the first run's
\* files, and the disk is the same after two runs as after one.  A run
\* stopped earlier writes the names of the extensions before that point
\* only, so of two runs one writes a subset of the other's names; the
\* disk after two runs holds exactly the names either run wrote; and the
\* files of the first run never stop the second.
C6_RerunSameNames ==
    (run = 2 /\ pc = "done") =>
        /\ (first.all /\ i = Len(hdul)) =>
              (Names(written) = first.names /\ disk = first.disk)
        /\ Names(written) \subseteq first.names \/ first.names \subseteq Names(written)
        /\ disk = first.names \cup Names(written)
        /\ (first.all /\ fault.at = "none") => i = Len(hdul)

C6_Witness ==
    /\ run = 2
    /\ pc = "done"
    /\ first.all
    /\ i = Len(hdul)
    /\ Cardinality(CsvWritten) >= 1
    /\ Cardinality(PngWritten) >= 1

\* C7: a failure (an Exception raised by opening or processing) is caught
\* at the file boundary: it goes to the except clause, after it no
\* extension is processed, nothing is opened again, no file is removed, and
\* the run ends with the message and the traceback printed once, every
\* artifact written before the failure on disk, and no uncaught exception.
C7_CaughtAtFileBoundary ==
    [][ /\ (exc' /\ ~exc) => pc' = "except"
        /\ (exc /\ run' = run) =>
              /\ pc' = "done"
              /\ UNCHANGED <<i, outcome, written, disk, openCount,
                             table_count, image_count, isOpen, summary>>
        /\ (exc' /\ pc' = "done") =>
              /\ errors' = 1
              /\ tracebacks' = 1
              /\ Names(written') \subseteq disk'
              /\ \A k \in 1..Len(written') : written'[k].hdu <= i'
              /\ Len(outcome') <= i' + 1
              /\ ~uncaught'
              /\ openCount' <= 1 ]_vars

\* C8: the container is opened at most once per run and is closed whenever
\* control is in the except clause or the run has ended.
C8_ContainerReleased ==
    /\ openCount <= 1
    /\ isOpen => (pc \in {"loop", "show"} /\ openCount = 1)
    /\ pc \in {"except", "done"} => ~isOpen

C8_Witness ==
    /\ pc = "except"
    /\ openCount = 1
    /\ Len(outcome) >= 2

\* C9: an image payload with more than 2 dimensions reaches normalization
\* as an array of exactly 2 dimensions, after a notice was printed; a
\* 2-dimensional payload is used unchanged without notice.
C9_SliceIsTwoDimensional ==
    \A k \in 1..Len(imglog) :
        imglog[k].used # 0 =>
            /\ imglog[k].ndim > 2 => (imglog[k].used = 2 /\ imglog[k].notice)
            /\ imglog[k].ndim = 2 => (imglog[k].used = 2 /\ ~imglog[k].notice)

\* C10: each summary line is printed at most once per run and only after
\* every extension was dispatched once in index order; a run in which
\* opening or the processing of an extension fails prints no summary
\* although the counters and files of the earlier extensions exist, each
\* handler incrementing its counter before it writes its file.
C10_SummaryOnlyAfterAll ==
    /\ Len(summary) <= 3
    /\ \A a, b \in 1..Len(summary) : summary[a].line = summary[b].line => a = b
    /\ \A k \in 1..Len(outcome) : outcome[k].hdu = k - 1
    /\ summary # <<>> =>
          (i = Len(hdul) /\ Len(outcome) = Len(hdul) /\ pc \in {"done", "except"})
    /\ ((exc \/ uncaught) /\ fault.at # "summary") => summary = <<>>
    /\ table_count = Cardinality({k \in 1..Len(outcome) : outcome[k].branch = "table"})
    /\ image_count = Cardinality({k \in 1..Len(outcome) : outcome[k].branch = "image"})
    /\ Cardinality(CsvWritten) <= table_count
    /\ table_count <= Cardinality(CsvWritten) + 1
    /\ Cardinality(PngWritten) <= image_count
    /\ image_count <= Cardinality(PngWritten) + 1
    /\ table_count + image_count <= Len(written) + 1
    /\ (~exc /\ ~uncaught /\ pc # "show") =>
          table_count + image_count = Len(written)

C10_Witness ==
    /\ pc = "done"
    /\ exc
    /\ summary = <<>>
    /\ Len(written) >= 1
    /\ table_count + image_count = Len(written) + 1
====
